---- MODULE Spec2Model ----
(***************************************************************************)
(* State-machine model of src/src/lambda_function.py: the S3 backup        *)
(* cleaner Lambda (lambda_handler, load_retention_config and the three     *)
(* S3BackupCleaner operations list_backup_objects, get_objects_to_delete   *)
(* and delete_objects, tied together by process_folder).                   *)
(*                                                                         *)
(* Python values are modelled as follows.                                  *)
(*   dict            a function whose DOMAIN is the set of keys present    *)
(*   list            a sequence                                            *)
(*   datetime        an integer number of time units; DayUnits units make  *)
(*                   one day, so that timedelta.days is a floor division   *)
(*   object key      <<prefix, n>>: n >= 1 is the n-th object under the    *)
(*                   prefix in listing (key) order, n = 0 is the key that  *)
(*                   equals the prefix itself and so ends with "/"         *)
(*   raised exception  the name of its class, "ClientError" for botocore's *)
(*                   ClientError, "JSONDecodeError", "KeyError", and       *)
(*                   "Exception" for any class that is not a ClientError   *)
(***************************************************************************)
EXTENDS Integers, Sequences, FiniteSets, TLC

(***************************************************************************)
(* Bounds of the model.                                                    *)
(***************************************************************************)
MaxObjects == 3      \* objects given to one unit call of get_objects_to_delete
MaxTime == 4         \* timestamps range over 0..MaxTime
MaxPolicies == 2     \* policy records in one configuration document
MaxStored == 2       \* objects stored under one prefix at the start of a run
MaxChunks == 2       \* full chunks in one unit call of delete_objects

(***************************************************************************)
(* Program constants: the batch size of delete_objects and the defaults of *)
(* a policy record.  DayUnits is the length of a day in time units: with   *)
(* half days as the unit, timestamps that differ by less than a day exist. *)
(***************************************************************************)
batch_size == 1000
DefaultDaysToKeep == 30
DefaultMinBackupsToKeep == 3
DayUnits == 2

Folders == {"a/", "b/"}
Times == 0 .. MaxTime
ClockValues == 0 .. (MaxTime + 1)

Range(s) == {s[n] : n \in 1 .. Len(s)}

Min(a, b) == IF a < b THEN a ELSE b

(***************************************************************************)
(* dict.get(key, default)                                                  *)
(***************************************************************************)
Get(d, key, default) == IF key \in DOMAIN d THEN d[key] ELSE default

(***************************************************************************)
(* BackupRetentionPolicy(folder, days_to_keep, min_backups_to_keep)        *)
(***************************************************************************)
BackupRetentionPolicy(folder, days_to_keep, min_backups_to_keep) ==
    [folder |-> folder, days_to_keep |-> days_to_keep,
     min_backups_to_keep |-> min_backups_to_keep]

(***************************************************************************)
(* sorted(objects, key=LastModified, reverse=True): newest first; the sort *)
(* is stable, so objects with equal timestamps keep their input order.     *)
(* FirstNewest is the position of the first object with the largest        *)
(* timestamp; the sort takes it and goes on with the rest.                 *)
(***************************************************************************)
RemoveAt(s, p) == SubSeq(s, 1, p - 1) \o SubSeq(s, p + 1, Len(s))

FirstNewest(s) ==
    CHOOSE p \in 1 .. Len(s) :
        /\ \A q \in 1 .. Len(s) : s[q].LastModified <= s[p].LastModified
        /\ \A q \in 1 .. (p - 1) : s[q].LastModified < s[p].LastModified

RECURSIVE sorted_objects(_)
sorted_objects(s) ==
    IF s = <<>> THEN <<>>
    ELSE LET p == FirstNewest(s)
         IN  <<s[p]>> \o sorted_objects(RemoveAt(s, p))

(***************************************************************************)
(* age_days = (now - obj['LastModified']).days : timedelta.days is the     *)
(* floor of the difference in days (negative for a future timestamp).      *)
(***************************************************************************)
age_days(now, last_modified) == (now - last_modified) \div DayUnits

(***************************************************************************)
(* Variant of KeptAsLatest with the test inverted: the objects beyond the  *)
(* first min_backups_to_keep are the ones passed over.                     *)
(***************************************************************************)
KeptBeyondLatest(idx, policy) == idx >= policy.min_backups_to_keep

(***************************************************************************)
(* Variant of KeptAsLatest with idx counted from 1.                        *)
(***************************************************************************)
KeptOffByOne(idx, policy) == idx + 1 < policy.min_backups_to_keep

(***************************************************************************)
(* if idx < policy.min_backups_to_keep: continue   (idx counts from 0)     *)
(***************************************************************************)
KeptAsLatest(idx, policy) == idx < policy.min_backups_to_keep

(***************************************************************************)
(* Variant of OlderThanRetention with >= for >.                            *)
(***************************************************************************)
OlderOrEqual(now, obj, policy) ==
    age_days(now, obj.LastModified) >= policy.days_to_keep

(***************************************************************************)
(* if age_days > policy.days_to_keep: to_delete.append(obj['Key'])         *)
(***************************************************************************)
OlderThanRetention(now, obj, policy) ==
    age_days(now, obj.LastModified) > policy.days_to_keep

(***************************************************************************)
(* get_objects_to_delete(objects, policy), with the clock it reads: the    *)
(* keys of the marked objects, in the order of the loop over               *)
(* sorted_objects.                                                         *)
(***************************************************************************)
get_objects_to_delete(objs, policy, now) ==
    IF objs = <<>> THEN <<>>
    ELSE LET so == sorted_objects(objs)
             marked == {n \in 1 .. Len(so) :
                           /\ ~KeptAsLatest(n - 1, policy)
                           /\ OlderThanRetention(now, so[n], policy)}
             RECURSIVE Keys(_)
             Keys(n) == IF n > Len(so) THEN <<>>
                        ELSE (IF n \in marked THEN <<so[n].Key>> ELSE <<>>)
                             \o Keys(n + 1)
         IN  Keys(1)

(***************************************************************************)
(* batch = keys[i:i + batch_size]   (i counts from 0)                      *)
(***************************************************************************)
Batch(keys, i) == SubSeq(keys, i + 1, Min(i + batch_size, Len(keys)))

VARIABLES
    environ,        \* os.environ: BUCKET_NAME and RETENTION_CONFIG when set
    bucket,         \* the objects stored in the bucket
    clock,          \* the last value read from datetime.now
    pc,             \* where the run stands
    policies,       \* lambda_handler: the loaded policies
    idx,            \* lambda_handler: position of the policy being processed
    results,        \* lambda_handler: results
    objects,        \* process_folder: objects
    to_delete,      \* process_folder: to_delete, the keys given to delete_objects
    i,              \* delete_objects: start of the next batch
    successful,     \* delete_objects: successful
    failed,         \* delete_objects: failed
    calls,          \* the calls made on s3_client, in order
    response        \* what lambda_handler returned

vars == <<environ, bucket, clock, pc, policies, idx, results, objects,
          to_delete, i, successful, failed, calls, response>>


(***************************************************************************)
(* Values of the environment variables.  BUCKET_NAME is a string.          *)
(* RETENTION_CONFIG is a string too; it is modelled by what the program    *)
(* makes of it: the empty string, a text that json.loads rejects, a JSON   *)
(* text (with the document it parses to), or an s3://bucket[/key] pointer  *)
(* (with the parts that split('/', 1) gives).  The body of the object the  *)
(* pointer names is a text of the same two kinds.                          *)
(*                                                                         *)
(* The policy records a document draws from: thresholds left to their      *)
(* defaults, given, or negative, for either folder, and a record without   *)
(* folder.                                                                 *)
(***************************************************************************)
PolicyConfigs ==
    { [folder |-> "a/"],
      [folder |-> "a/", days_to_keep |-> 1, min_backups_to_keep |-> 1],
      [folder |-> "a/", days_to_keep |-> -1, min_backups_to_keep |-> 0],
      [folder |-> "b/", days_to_keep |-> 0, min_backups_to_keep |-> -1],
      [folder |-> "b/", days_to_keep |-> 0],
      [days_to_keep |-> 0, min_backups_to_keep |-> 1] }

PolicyConfigLists ==
    UNION {[1 .. n -> PolicyConfigs] : n \in 0 .. MaxPolicies}

ConfigDocuments ==
    {<<>>} \cup {[retention_policies |-> l] : l \in PolicyConfigLists}

BucketNames == {"", "test-bucket"}

ConfigTexts ==
    {[kind |-> "malformed"]}
    \cup {[kind |-> "json", document |-> d] : d \in ConfigDocuments}

RetentionConfigs ==
    {[kind |-> "empty"]}
    \cup ConfigTexts
    \cup {[kind |-> "s3", parts |-> p] :
             p \in {<<"config-bucket">>, <<"config-bucket", "policies.json">>}}

Environments ==
    {b @@ r :
        b \in {<<>>} \cup {[BUCKET_NAME |-> x] : x \in BucketNames},
        r \in {<<>>} \cup {[RETENTION_CONFIG |-> x] : x \in RetentionConfigs}}

(***************************************************************************)
(* Variant of NotSet that takes an empty string for a value.               *)
(***************************************************************************)
UnsetOnly(name) == name \notin DOMAIN environ

(***************************************************************************)
(* not os.environ.get(name): the variable is unset or the empty string.    *)
(***************************************************************************)
NotSet(name) ==
    \/ name \notin DOMAIN environ
    \/ name = "BUCKET_NAME" /\ environ[name] = ""
    \/ name = "RETENTION_CONFIG" /\ environ[name].kind = "empty"

ErrorResponse(status, error_msg) ==
    [statusCode |-> status, body |-> [error |-> error_msg]]

InternalError(e) ==
    [statusCode |-> 500,
     body |-> [error |-> "Internal server error", message |-> e]]

NoPolicies ==
    [statusCode |-> 200,
     body |-> [message |-> "No retention policies configured",
               results |-> <<>>]]

(***************************************************************************)
(* sum(r.get(field, 0) for r in results)                                   *)
(***************************************************************************)
RECURSIVE Total(_, _)
Total(rs, field) ==
    IF rs = <<>> THEN 0
    ELSE Get(rs[1], field, 0) + Total(Tail(rs), field)

(***************************************************************************)
(* Variant of Completed whose total_failed sums the deleted counts.        *)
(***************************************************************************)
CompletedSummingDeletedTwice(rs) ==
    [statusCode |-> 200,
     body |-> [message |-> "Backup cleanup completed",
               total_deleted |-> Total(rs, "deleted"),
               total_failed |-> Total(rs, "deleted"),
               results |-> rs]]

(***************************************************************************)
(* lambda_handler: the summary and the response of a completed run.        *)
(***************************************************************************)
Completed(rs) ==
    [statusCode |-> 200,
     body |-> [message |-> "Backup cleanup completed",
               total_deleted |-> Total(rs, "deleted"),
               total_failed |-> Total(rs, "failed"),
               results |-> rs]]


(***************************************************************************)
(* load_retention_config, after config_data is there: the loop that builds *)
(* the policies.  policy_config['folder'] raises KeyError when the record  *)
(* has no folder; the two thresholds have defaults.                        *)
(***************************************************************************)
PolicyConfigsOf(config_data) ==
    IF "retention_policies" \in DOMAIN config_data
    THEN config_data["retention_policies"]
    ELSE <<>>

(***************************************************************************)
(* Variant of ParseRaises that reads config_data['retention_policies']     *)
(* without testing for the key.                                            *)
(***************************************************************************)
MissingKeyRaises(config_data) ==
    \/ "retention_policies" \notin DOMAIN config_data
    \/ \E n \in 1 .. Len(config_data["retention_policies"]) :
           "folder" \notin DOMAIN config_data["retention_policies"][n]

(***************************************************************************)
(* policy_config['folder'] raises KeyError for some record.                *)
(***************************************************************************)
ParseRaises(config_data) ==
    \E n \in 1 .. Len(PolicyConfigsOf(config_data)) :
        "folder" \notin DOMAIN PolicyConfigsOf(config_data)[n]

ParsedPolicies(config_data) ==
    [n \in 1 .. Len(PolicyConfigsOf(config_data)) |->
        LET policy_config == PolicyConfigsOf(config_data)[n]
        IN  BackupRetentionPolicy(
                policy_config["folder"],
                Get(policy_config, "days_to_keep", DefaultDaysToKeep),
                Get(policy_config, "min_backups_to_keep",
                    DefaultMinBackupsToKeep))]

(***************************************************************************)
(* key = parts[1] if len(parts) > 1 else 'config.json'                     *)
(***************************************************************************)
ConfigKey(parts) == IF Len(parts) > 1 THEN parts[2] ELSE "config.json"

(***************************************************************************)
(* The objects of the bucket under a prefix, in key order, without the     *)
(* keys that end with "/": what list_backup_objects returns.               *)
(***************************************************************************)
RECURSIVE InKeyOrder(_)
InKeyOrder(objs) ==
    IF objs = {} THEN <<>>
    ELSE LET first == CHOOSE o \in objs :
                          \A other \in objs : o.Key[2] <= other.Key[2]
         IN  <<first>> \o InKeyOrder(objs \ {first})

EndsWithSlash(key) == key[2] = 0

Listed(prefix) ==
    InKeyOrder({o \in bucket : o.Key[1] = prefix /\ ~EndsWithSlash(o.Key)})

(***************************************************************************)
(* The responses of one delete_objects call the model draws from: the set  *)
(* of keys reported under 'Errors'; every other key of the batch is        *)
(* reported under 'Deleted'.  Every split of a short batch; for a long     *)
(* one, none, all, the first key, the last key, all but the first.         *)
(***************************************************************************)
ErrorChoices(batch) ==
    IF Len(batch) <= MaxObjects
    THEN SUBSET Range(batch)
    ELSE { {}, Range(batch), {batch[1]}, {batch[Len(batch)]},
           Range(batch) \ {batch[1]} }

(***************************************************************************)
(* The response for a batch with these keys in error: 'Deleted' and        *)
(* 'Errors' list the keys of the batch, each key in one of them, and a     *)
(* list that would be empty is left out of the response.                   *)
(***************************************************************************)
Response(batch, errors) ==
    LET InError(key) == key \in errors
        NotInError(key) == key \notin errors
        deleted_keys == SelectSeq(batch, NotInError)
        error_keys == SelectSeq(batch, InError)
    IN  (IF deleted_keys = <<>> THEN <<>> ELSE [Deleted |-> deleted_keys])
        @@ (IF error_keys = <<>> THEN <<>> ELSE [Errors |-> error_keys])

(***************************************************************************)
(* The counters of delete_objects after one call.                          *)
(***************************************************************************)
SuccessfulAfter(count, resp) ==
    IF "Deleted" \in DOMAIN resp THEN count + Len(resp["Deleted"]) ELSE count

\* Variant of FailedAfter that counts one failure for a response with errors.
FailedAfterByOne(count, resp) ==
    IF "Errors" \in DOMAIN resp THEN count + 1 ELSE count

FailedAfter(count, resp) ==
    IF "Errors" \in DOMAIN resp THEN count + Len(resp["Errors"]) ELSE count

FailedWholeBatch(count, batch) == count + Len(batch)


(***************************************************************************)
(* The locals of process_folder and delete_objects before a folder starts. *)
(***************************************************************************)
FreshLocals ==
    /\ objects' = <<>>
    /\ to_delete' = <<>>
    /\ i' = 0
    /\ successful' = 0
    /\ failed' = 0

(***************************************************************************)
(* lambda_handler, the end of one turn of `for policy in policies` with    *)
(* the results as they now are: the next policy, or after the last one     *)
(* the summary and the 200 response.                                       *)
(***************************************************************************)
NextPolicy(rs) ==
    /\ results' = rs
    /\ FreshLocals
    /\ IF idx < Len(policies)
       THEN /\ idx' = idx + 1
            /\ pc' = "list"
            /\ response' = response
       ELSE /\ idx' = idx
            /\ pc' = "done"
            /\ response' = Completed(rs)

(***************************************************************************)
(* Variant of FolderFailed without the try around process_folder: the      *)
(* exception reaches the outer except Exception.                           *)
(***************************************************************************)
FolderFailedAborts(e) ==
    /\ results' = results
    /\ FreshLocals
    /\ idx' = idx
    /\ pc' = "done"
    /\ response' = InternalError(e)

(***************************************************************************)
(* lambda_handler: except Exception around process_folder.                 *)
(***************************************************************************)
FolderFailed(e) ==
    NextPolicy(Append(results, [folder |-> policies[idx].folder, error |-> e]))

(***************************************************************************)
(* lambda_handler: the two environment variables are read and checked.     *)
(***************************************************************************)
CheckEnvironment ==
    /\ pc = "start"
    /\ IF NotSet("BUCKET_NAME")
       THEN /\ pc' = "done"
            /\ response' = ErrorResponse(400,
                   "BUCKET_NAME environment variable is required")
       ELSE IF NotSet("RETENTION_CONFIG")
       THEN /\ pc' = "done"
            /\ response' = ErrorResponse(400,
                   "RETENTION_CONFIG environment variable is required")
       ELSE /\ pc' = "load"
            /\ response' = response
    /\ UNCHANGED <<environ, bucket, clock, policies, idx, results, objects,
                   to_delete, i, successful, failed, calls>>

(***************************************************************************)
(* lambda_handler from load_retention_config on, once config_data is       *)
(* there or an exception was raised on the way to it.                      *)
(***************************************************************************)
LoadFailed(e) ==
    /\ pc' = "done"
    /\ response' = InternalError(e)
    /\ UNCHANGED <<policies, idx>>

Loaded(config_data) ==
    IF ParseRaises(config_data)
    THEN LoadFailed("KeyError")
    ELSE /\ policies' = ParsedPolicies(config_data)
         /\ IF ParsedPolicies(config_data) = <<>>
            THEN /\ pc' = "done"
                 /\ response' = NoPolicies
                 /\ idx' = idx
            ELSE /\ pc' = "list"
                 /\ response' = response
                 /\ idx' = 1

(***************************************************************************)
(* load_retention_config on a JSON string.                                 *)
(***************************************************************************)
JsonLoads(text) ==
    IF text.kind = "malformed"
    THEN LoadFailed("JSONDecodeError")
    ELSE Loaded(text.document)

LoadFromString ==
    /\ pc = "load"
    /\ environ["RETENTION_CONFIG"].kind \in {"malformed", "json"}
    /\ JsonLoads(environ["RETENTION_CONFIG"])
    /\ UNCHANGED <<environ, bucket, clock, results, objects, to_delete, i,
                   successful, failed, calls>>

(***************************************************************************)
(* load_retention_config on an s3:// pointer: one get_object call, which   *)
(* raises, or returns a body that json.loads rejects or parses.            *)
(***************************************************************************)
GetObject(parts, raised, body) ==
    [op |-> "get_object", Bucket |-> parts[1], Key |-> ConfigKey(parts),
     raised |-> raised, body |-> body]

LoadFromS3 ==
    /\ pc = "load"
    /\ environ["RETENTION_CONFIG"].kind = "s3"
    /\ LET parts == environ["RETENTION_CONFIG"].parts
       IN  \/ \E e \in {"ClientError", "Exception"} :
                  /\ calls' = Append(calls,
                         GetObject(parts, e, [kind |-> "none"]))
                  /\ LoadFailed(e)
           \/ \E text \in ConfigTexts :
                  /\ calls' = Append(calls, GetObject(parts, "", text))
                  /\ JsonLoads(text)
    /\ UNCHANGED <<environ, bucket, clock, results, objects, to_delete, i,
                   successful, failed>>


(***************************************************************************)
(* process_folder: list_backup_objects(policy.folder).  The paginator is   *)
(* asked for the prefix; a ClientError is logged and raised again, any     *)
(* other exception passes through, and both end the folder in              *)
(* lambda_handler's except.                                                *)
(***************************************************************************)
ListObjectsV2(prefix, raised) ==
    [op |-> "list_objects_v2", Prefix |-> prefix, raised |-> raised]

ListBackupObjects ==
    /\ pc = "list"
    /\ \/ /\ calls' = Append(calls, ListObjectsV2(policies[idx].folder, ""))
          /\ objects' = Listed(policies[idx].folder)
          /\ pc' = "evaluate"
          /\ UNCHANGED <<idx, results, to_delete, i, successful, failed,
                         response>>
       \/ \E e \in {"ClientError", "Exception"} :
              /\ calls' = Append(calls, ListObjectsV2(policies[idx].folder, e))
              /\ FolderFailed(e)
    /\ UNCHANGED <<environ, bucket, clock, policies>>

(***************************************************************************)
(* process_folder: get_objects_to_delete(objects, policy), which reads the *)
(* clock once, and the entry of delete_objects (its counters at 0).        *)
(***************************************************************************)
GetObjectsToDelete ==
    /\ pc = "evaluate"
    /\ \E now \in ClockValues :
          /\ now >= clock
          /\ clock' = now
          /\ to_delete' = get_objects_to_delete(objects, policies[idx], now)
    /\ pc' = "delete"
    /\ i' = 0
    /\ successful' = 0
    /\ failed' = 0
    /\ UNCHANGED <<environ, bucket, policies, idx, results, objects, calls,
                   response>>

(***************************************************************************)
(* delete_objects: one turn of the loop over the batches.  The call        *)
(* returns a response, raises ClientError (caught here), or raises         *)
(* another exception, which leaves delete_objects and process_folder.      *)
(***************************************************************************)
Remaining(batch, errors) ==
    LET deleted == Range(batch) \ errors
    IN  {o \in bucket : o.Key \notin deleted}

DeleteObjects(batch, raised, errors) ==
    [op |-> "delete_objects", Keys |-> batch, raised |-> raised,
     Errors |-> errors]

DeleteBatch ==
    /\ pc = "delete"
    /\ i < Len(to_delete)
    /\ LET batch == Batch(to_delete, i)
       IN  /\ \/ \E errors \in ErrorChoices(batch) :
                    /\ calls' = Append(calls, DeleteObjects(batch, "", errors))
                    /\ successful' =
                           SuccessfulAfter(successful, Response(batch, errors))
                    /\ failed' = FailedAfter(failed, Response(batch, errors))
                    /\ bucket' = Remaining(batch, errors)
                    /\ i' = i + batch_size
                    /\ UNCHANGED <<pc, idx, results, objects, to_delete,
                                   response>>
              \/ /\ calls' = Append(calls,
                        DeleteObjects(batch, "ClientError", {}))
                 /\ failed' = FailedWholeBatch(failed, batch)
                 /\ i' = i + batch_size
                 /\ UNCHANGED <<bucket, pc, idx, results, objects, to_delete,
                                successful, response>>
              \/ /\ calls' = Append(calls,
                        DeleteObjects(batch, "Exception", {}))
                 /\ FolderFailed("Exception")
                 /\ UNCHANGED bucket
    /\ UNCHANGED <<environ, clock, policies>>

(***************************************************************************)
(* delete_objects returns (successful, failed), at once for no keys;       *)
(* process_folder builds the result and lambda_handler appends it.         *)
(***************************************************************************)
ProcessFolderReturn ==
    /\ pc = "delete"
    /\ i >= Len(to_delete)
    /\ NextPolicy(Append(results,
           [folder |-> policies[idx].folder,
            total_objects |-> Len(objects),
            objects_to_delete |-> Len(to_delete),
            deleted |-> successful,
            failed |-> failed]))
    /\ UNCHANGED <<environ, bucket, clock, policies, calls>>

(***************************************************************************)
(* A run of lambda_handler: any environment, a bucket that holds up to     *)
(* MaxStored objects under each prefix (and the key "a/" itself), by turns *)
(* an old one and one written just before the run starts.                  *)
(***************************************************************************)
StoredStamp(n) == IF n % 2 = 1 THEN 0 ELSE MaxTime

StoredUnder(prefix) ==
    {{[Key |-> <<prefix, n>>, LastModified |-> StoredStamp(n)] : n \in 1 .. k} :
        k \in 0 .. MaxStored}

Buckets ==
    {{[Key |-> <<"a/", 0>>, LastModified |-> 0]} \cup a \cup b :
        a \in StoredUnder("a/"), b \in StoredUnder("b/")}

Init ==
    /\ environ \in Environments
    /\ bucket \in Buckets
    /\ clock = MaxTime + 1
    /\ pc = "start"
    /\ policies = <<>>
    /\ idx = 0
    /\ results = <<>>
    /\ objects = <<>>
    /\ to_delete = <<>>
    /\ i = 0
    /\ successful = 0
    /\ failed = 0
    /\ calls = <<>>
    /\ response = "None"

Next ==
    \/ CheckEnvironment
    \/ LoadFromString
    \/ LoadFromS3
    \/ ListBackupObjects
    \/ GetObjectsToDelete
    \/ DeleteBatch
    \/ ProcessFolderReturn

Spec == Init /\ [][Next]_vars


(***************************************************************************)
(* get_objects_to_delete on its own: process_folder has listed any list of *)
(* up to MaxObjects objects with any timestamps, for one policy with any   *)
(* thresholds, and the clock reads any value.                              *)
(***************************************************************************)
DaysValues == -1 .. 2
MinValues == -1 .. (MaxObjects + 1)

ObjectLists ==
    UNION {{[n \in 1 .. k |-> [Key |-> <<"a/", n>>, LastModified |-> stamps[n]]] :
               stamps \in [1 .. k -> Times]} : k \in 0 .. MaxObjects}

RunningWith(policy_config) ==
    [BUCKET_NAME |-> "test-bucket",
     RETENTION_CONFIG |->
         [kind |-> "json",
          document |-> [retention_policies |-> <<policy_config>>]]]

InFolder(policy_config) ==
    /\ environ = RunningWith(policy_config)
    /\ policies = ParsedPolicies(environ["RETENTION_CONFIG"].document)
    /\ idx = 1
    /\ results = <<>>
    /\ bucket = Range(objects)
    /\ calls = <<ListObjectsV2("a/", "")>>
    /\ response = "None"

EvalInit ==
    /\ objects \in ObjectLists
    /\ \E d \in DaysValues, m \in MinValues :
          InFolder([folder |-> "a/", days_to_keep |-> d,
                    min_backups_to_keep |-> m])
    /\ clock = 0
    /\ pc = "evaluate"
    /\ to_delete = <<>>
    /\ i = 0
    /\ successful = 0
    /\ failed = 0

EvalSpec == EvalInit /\ [][GetObjectsToDelete]_vars

(***************************************************************************)
(* delete_objects on its own: get_objects_to_delete has marked every       *)
(* object of a folder whose size is a few keys, or within one key of a     *)
(* multiple of batch_size.                                                 *)
(***************************************************************************)
DeleteLengths ==
    (0 .. MaxObjects)
    \cup {n \in {k * batch_size + d : k \in 1 .. MaxChunks, d \in {-1, 0, 1}} :
             n >= 0}

DeleteInit ==
    /\ \E n \in DeleteLengths :
          objects = [k \in 1 .. n |-> [Key |-> <<"a/", k>>, LastModified |-> 0]]
    /\ InFolder([folder |-> "a/", days_to_keep |-> 0,
                 min_backups_to_keep |-> 0])
    /\ clock = MaxTime + 1
    /\ pc = "delete"
    /\ to_delete = [k \in 1 .. Len(objects) |-> objects[k].Key]
    /\ i = 0
    /\ successful = 0
    /\ failed = 0

DeleteNext ==
    \/ DeleteBatch
    \/ ProcessFolderReturn

DeleteSpec == DeleteInit /\ [][DeleteNext]_vars


(***************************************************************************)
(*                              Properties                                 *)
(***************************************************************************)

(***************************************************************************)
(* Position(p): how many of the listed objects come before objects[p] in   *)
(* the newest-first ordering: the newer ones, and the equally old ones     *)
(* listed before it.  Evaluated: get_objects_to_delete has returned        *)
(* to_delete for objects, the policy policies[idx] and the clock value.    *)
(***************************************************************************)
Position(p) ==
    Cardinality({q \in 1 .. Len(objects) :
                    \/ objects[q].LastModified > objects[p].LastModified
                    \/ /\ objects[q].LastModified = objects[p].LastModified
                       /\ q < p})

Marked(p) == objects[p].Key \in Range(to_delete)

Evaluated == pc = "delete" /\ i = 0 /\ calls[Len(calls)].op = "list_objects_v2"

(***************************************************************************)
(* C1.  get_objects_to_delete never returns the key of an object at one of *)
(* the first min_backups_to_keep positions of the newest-first ordering,   *)
(* whatever its age, and returns nothing when min_backups_to_keep is at    *)
(* least the number of objects.                                            *)
(***************************************************************************)
C1_LatestBackupsNeverMarked ==
    Evaluated =>
        /\ \A p \in 1 .. Len(objects) :
               Position(p) < policies[idx].min_backups_to_keep => ~Marked(p)
        /\ policies[idx].min_backups_to_keep >= Len(objects)
               => to_delete = <<>>

(***************************************************************************)
(* An object older than the retention period is kept because it is one of  *)
(* the latest min_backups_to_keep, while an older one is marked.           *)
(***************************************************************************)
C1_Witness ==
    /\ Evaluated
    /\ to_delete # <<>>
    /\ policies[idx].days_to_keep >= 0
    /\ \E p \in 1 .. Len(objects) :
          /\ Position(p) < policies[idx].min_backups_to_keep
          /\ clock - objects[p].LastModified
                 >= (policies[idx].days_to_keep + 1) * DayUnits
          /\ ~Marked(p)

(***************************************************************************)
(* C2.  An object that is not at one of the first min_backups_to_keep      *)
(* positions of the newest-first ordering is marked if and only if its age *)
(* in whole days (the time since its modification, in days, rounded down)  *)
(* is greater than days_to_keep, that is, if and only if at least          *)
(* days_to_keep + 1 whole days have passed; at exactly days_to_keep whole  *)
(* days it is retained.                                                    *)
(***************************************************************************)
C2_MarkedIffOlderThanRetention ==
    Evaluated =>
        \A p \in 1 .. Len(objects) :
            Position(p) >= policies[idx].min_backups_to_keep =>
                (Marked(p) <=>
                    clock - objects[p].LastModified
                        >= (policies[idx].days_to_keep + 1) * DayUnits)

(***************************************************************************)
(* Beyond the latest min_backups_to_keep, one object is marked and another *)
(* whose age is exactly days_to_keep whole days is retained.               *)
(***************************************************************************)
C2_Witness ==
    /\ Evaluated
    /\ policies[idx].min_backups_to_keep >= 1
    /\ policies[idx].days_to_keep >= 1
    /\ \E p, q \in 1 .. Len(objects) :
          /\ Position(p) >= policies[idx].min_backups_to_keep
          /\ Position(q) >= policies[idx].min_backups_to_keep
          /\ Marked(p)
          /\ ~Marked(q)
          /\ clock - objects[q].LastModified
                 >= policies[idx].days_to_keep * DayUnits
          /\ clock - objects[q].LastModified
                 < (policies[idx].days_to_keep + 1) * DayUnits


(***************************************************************************)
(* Returned: the loop of delete_objects is over and it returns             *)
(* (successful, failed) for the keys to_delete.  DeleteCalls(log): the     *)
(* delete_objects calls of a log, in order.                                *)
(***************************************************************************)
Returned == pc = "delete" /\ i >= Len(to_delete)

IsDeleteCall(call) == call.op = "delete_objects"

DeleteCalls(log) == SelectSeq(log, IsDeleteCall)

(***************************************************************************)
(* C3.  When delete_objects returns, successful + failed is the number of  *)
(* keys it was given, whatever mix of deleted keys and keys in error the   *)
(* responses reported.                                                     *)
(***************************************************************************)
C3_CountsAddUpToKeys ==
    Returned => successful + failed = Len(to_delete)

(***************************************************************************)
(* delete_objects returns after two or more calls, one of whose responses  *)
(* reported both deleted keys and keys in error.                           *)
(***************************************************************************)
C3_Witness ==
    /\ Returned
    /\ Len(DeleteCalls(calls)) >= 2
    /\ successful > 0
    /\ failed > 0
    /\ \E k \in 1 .. Len(calls) :
          /\ IsDeleteCall(calls[k])
          /\ calls[k].raised = ""
          /\ calls[k].Errors # {}
          /\ calls[k].Errors # Range(calls[k].Keys)


(***************************************************************************)
(* What the log of calls tells about a run.  FolderOf(k): the number of    *)
(* the policy during whose processing call k was made (the listing calls   *)
(* made up to k).  Escaped(k): call k raised an exception that left        *)
(* process_folder: any exception of a listing, and of a deletion any that  *)
(* delete_objects does not catch.  StorageTouched: an object was listed or *)
(* deleted.  ConfigText: the JSON text the run gave to json.loads.         *)
(***************************************************************************)
IsListCall(call) == call.op = "list_objects_v2"

FolderOf(k) == Cardinality({j \in 1 .. k : IsListCall(calls[j])})

Escaped(k) ==
    \/ IsListCall(calls[k]) /\ calls[k].raised # ""
    \/ IsDeleteCall(calls[k]) /\ calls[k].raised \notin {"", "ClientError"}

FolderRaised(n) ==
    \E k \in 1 .. Len(calls) : FolderOf(k) = n /\ Escaped(k)

StorageTouched ==
    \E k \in 1 .. Len(calls) : IsListCall(calls[k]) \/ IsDeleteCall(calls[k])

Done == pc = "done"

ConfigText ==
    IF "RETENTION_CONFIG" \notin DOMAIN environ
    THEN [kind |-> "none"]
    ELSE IF environ["RETENTION_CONFIG"].kind \in {"malformed", "json"}
    THEN environ["RETENTION_CONFIG"]
    ELSE IF /\ environ["RETENTION_CONFIG"].kind = "s3"
            /\ calls # <<>>
            /\ calls[1].op = "get_object"
            /\ calls[1].raised = ""
    THEN calls[1].body
    ELSE [kind |-> "none"]

BucketNameMissing ==
    "BUCKET_NAME" \notin DOMAIN environ \/ environ["BUCKET_NAME"] = ""

RetentionConfigMissing ==
    \/ "RETENTION_CONFIG" \notin DOMAIN environ
    \/ environ["RETENTION_CONFIG"].kind = "empty"

(***************************************************************************)
(* C4.  A run that got to its policies ends with status 200 and one result *)
(* per policy, in the order of the policies: every folder was listed, in   *)
(* that order, whatever happened to the folders before it; the result of a *)
(* folder whose processing raised is {folder, error}, the result of every  *)
(* other folder is a normal one with its counts.                           *)
(***************************************************************************)
C4_FailedFolderDoesNotStopTheRun ==
    (Done /\ policies # <<>>) =>
        /\ response.statusCode = 200
        /\ Len(response.body.results) = Len(policies)
        /\ Len(SelectSeq(calls, IsListCall)) = Len(policies)
        /\ \A n \in 1 .. Len(policies) :
              /\ SelectSeq(calls, IsListCall)[n].Prefix = policies[n].folder
              /\ response.body.results[n].folder = policies[n].folder
              /\ DOMAIN response.body.results[n] =
                     IF FolderRaised(n)
                     THEN {"folder", "error"}
                     ELSE {"folder", "total_objects", "objects_to_delete",
                           "deleted", "failed"}

(***************************************************************************)
(* The listing of the first folder failed, and the second folder was       *)
(* processed and had objects deleted.                                      *)
(***************************************************************************)
C4_Witness ==
    /\ Done
    /\ Len(policies) = 2
    /\ SelectSeq(calls, IsListCall)[1].raised = "ClientError"
    /\ SelectSeq(calls, IsListCall)[2].raised = ""
    /\ "error" \in DOMAIN response.body.results[1]
    /\ "deleted" \in DOMAIN response.body.results[2]
    /\ response.body.results[2].deleted > 0


(***************************************************************************)
(* The policy records of the configuration text, when it is a JSON         *)
(* document (none when it has no retention_policies key).                  *)
(***************************************************************************)
ConfiguredRecords ==
    IF ConfigText.kind # "json" THEN <<>>
    ELSE IF "retention_policies" \in DOMAIN ConfigText.document
    THEN ConfigText.document["retention_policies"]
    ELSE <<>>

ConfigurationError ==
    \/ BucketNameMissing
    \/ RetentionConfigMissing
    \/ ConfigText.kind = "malformed"
    \/ \E n \in 1 .. Len(ConfiguredRecords) :
           "folder" \notin DOMAIN ConfiguredRecords[n]

(***************************************************************************)
(* C5.  A run with a configuration error (a required environment variable  *)
(* missing, a RETENTION_CONFIG text that is not JSON, a policy record      *)
(* without folder) ends with status 400, and lists and deletes nothing.    *)
(* The code answers 500 to the last two.                                   *)
(***************************************************************************)
C5_ConfigurationErrorIs400 ==
    (Done /\ ConfigurationError) =>
        (response.statusCode = 400 /\ ~StorageTouched)

(***************************************************************************)
(* C6.  With BUCKET_NAME or RETENTION_CONFIG unset or empty, the run makes *)
(* no call on the S3 client at all and goes no further than the checks;    *)
(* it ends with status 400 and a body that holds only the error message    *)
(* naming the variable: BUCKET_NAME when that one is missing, and          *)
(* RETENTION_CONFIG otherwise.                                             *)
(***************************************************************************)
C6_MissingInputIs400WithoutCalls ==
    (BucketNameMissing \/ RetentionConfigMissing) =>
        /\ calls = <<>>
        /\ pc \in {"start", "done"}
        /\ Done =>
              response =
                  [statusCode |-> 400,
                   body |-> [error |->
                       IF BucketNameMissing
                       THEN "BUCKET_NAME environment variable is required"
                       ELSE "RETENTION_CONFIG environment variable is required"]]

(***************************************************************************)
(* The run ended on an empty BUCKET_NAME, although RETENTION_CONFIG held   *)
(* policies; and the run ended on an empty RETENTION_CONFIG.               *)
(***************************************************************************)
C6_Witness ==
    /\ Done
    /\ response.statusCode = 400
    /\ "BUCKET_NAME" \in DOMAIN environ
    /\ "RETENTION_CONFIG" \in DOMAIN environ
    /\ \/ /\ environ["BUCKET_NAME"] = ""
          /\ environ["RETENTION_CONFIG"].kind = "json"
          /\ ConfiguredRecords # <<>>
       \/ /\ environ["BUCKET_NAME"] # ""
          /\ environ["RETENTION_CONFIG"].kind = "empty"

(***************************************************************************)
(* C7.  A delete_objects call that raises (the chunk fails as a whole)     *)
(* has every key of the chunk counted as failed, is not made again, and    *)
(* the loop goes on with the next chunk.  The code does so for a           *)
(* ClientError only; another exception leaves the loop.                    *)
(***************************************************************************)
C7_FailedChunkCountedAndLoopGoesOn ==
    [][(/\ pc = "delete"
        /\ Len(calls') = Len(calls) + 1
        /\ calls'[Len(calls')].raised # "")
       => (/\ pc' = "delete"
           /\ to_delete' = to_delete
           /\ successful' = successful
           /\ failed' = failed + Len(calls'[Len(calls')].Keys)
           /\ i' >= i + Len(calls'[Len(calls')].Keys))]_vars

(***************************************************************************)
(* C8.  A policy with a negative days_to_keep or min_backups_to_keep is    *)
(* rejected as a configuration error, so no deletion call is ever made     *)
(* for a policy with a negative threshold.  The code loads such a policy   *)
(* and deletes under it.                                                   *)
(***************************************************************************)
C8_NoDeletionUnderNegativeThreshold ==
    (pc = "delete" /\ i > 0) =>
        /\ policies[idx].days_to_keep >= 0
        /\ policies[idx].min_backups_to_keep >= 0

(***************************************************************************)
(* C9.  When the configuration document has no retention_policies key, or  *)
(* an empty list under it, no policy is loaded, nothing is listed or       *)
(* deleted, and the run ends with status 200, the message "No retention    *)
(* policies configured" and no results.                                    *)
(***************************************************************************)
C9_NoPoliciesIsSuccess ==
    (/\ ~BucketNameMissing
     /\ ConfigText.kind = "json"
     /\ ConfiguredRecords = <<>>) =>
        /\ policies = <<>>
        /\ ~StorageTouched
        /\ Done =>
              response =
                  [statusCode |-> 200,
                   body |-> [message |-> "No retention policies configured",
                             results |-> <<>>]]

(***************************************************************************)
(* The run ended on a document without the retention_policies key, fetched *)
(* from S3.                                                                *)
(***************************************************************************)
C9_Witness ==
    /\ Done
    /\ response.statusCode = 200
    /\ environ["RETENTION_CONFIG"].kind = "s3"
    /\ ConfigText.kind = "json"
    /\ "retention_policies" \notin DOMAIN ConfigText.document

(***************************************************************************)
(* C10.  When delete_objects is over, its keys have been sent in           *)
(* consecutive chunks of at most batch_size keys, one call per chunk and   *)
(* in order, so that the calls' keys put end to end are the keys it was    *)
(* given (no call at all for no keys).  The chunks the code sends are      *)
(* those, but an exception other than ClientError (C7) ends the loop       *)
(* before the later chunks are sent.                                       *)
(***************************************************************************)
RECURSIVE KeysSent(_)
KeysSent(log) ==
    IF log = <<>> THEN <<>>
    ELSE (IF IsDeleteCall(log[1]) THEN log[1].Keys ELSE <<>>)
         \o KeysSent(Tail(log))

C10_EveryKeySentInOneChunk ==
    [][(pc = "delete" /\ pc' # "delete")
       => (/\ KeysSent(calls') = to_delete
           /\ \A k \in 1 .. Len(calls') :
                 IsDeleteCall(calls'[k]) =>
                     /\ calls'[k].Keys # <<>>
                     /\ Len(calls'[k].Keys) <= 1000)]_vars


(***************************************************************************)
(* Counted(rs, n, field): what result n of rs adds to a total: its count,  *)
(* and 0 when it is an error result, which has no counts.                  *)
(***************************************************************************)
Counted(rs, n, field) ==
    IF "error" \in DOMAIN rs[n] THEN 0 ELSE rs[n][field]

RECURSIVE SumUpTo(_, _, _)
SumUpTo(rs, n, field) ==
    IF n = 0 THEN 0 ELSE SumUpTo(rs, n - 1, field) + Counted(rs, n, field)

(***************************************************************************)
(* C11.  In a completed run with at least one policy, total_deleted and    *)
(* total_failed of the report are the sums of the deleted and failed       *)
(* counts of its folder results, an error result counting for 0 in both.   *)
(***************************************************************************)
C11_TotalsAreSumsOverResults ==
    (Done /\ policies # <<>>) =>
        LET rs == response.body.results
        IN  /\ response.body.total_deleted = SumUpTo(rs, Len(rs), "deleted")
            /\ response.body.total_failed = SumUpTo(rs, Len(rs), "failed")

(***************************************************************************)
(* A completed run of two folders: the first ended with an error, the      *)
(* second had one key deleted and one key in error.                        *)
(***************************************************************************)
C11_Witness ==
    /\ Done
    /\ Len(policies) = 2
    /\ "error" \in DOMAIN response.body.results[1]
    /\ "error" \notin DOMAIN response.body.results[2]
    /\ response.body.results[2].deleted > 0
    /\ response.body.results[2].failed > 0
    /\ response.body.total_deleted = response.body.results[2].deleted
    /\ response.body.total_failed = response.body.results[2].failed


(***************************************************************************)
(* ObjectsWithout(gone): the listed objects of the folder once the keys in *)
(* gone are deleted; KeysWithout(gone): the marked keys not in gone.  Both *)
(* keep the order of what stays.                                           *)
(***************************************************************************)
ObjectsWithout(gone) ==
    LET Stays(obj) == obj.Key \notin gone IN SelectSeq(objects, Stays)

KeysWithout(gone) ==
    LET Stays(k) == k \notin gone IN SelectSeq(to_delete, Stays)

(***************************************************************************)
(* C12.  After get_objects_to_delete has marked the keys of a folder, for  *)
(* every set of marked keys removed from the folder, the evaluation of the *)
(* remaining objects with the same policy at the same time marks exactly   *)
(* the marked keys that remain (none when all are removed), and no key of  *)
(* an object that had been retained.                                       *)
(***************************************************************************)
C12_ReevaluationMarksWhatRemains ==
    Evaluated =>
        \A gone \in SUBSET Range(to_delete) :
            LET again == get_objects_to_delete(ObjectsWithout(gone),
                                               policies[idx], clock)
            IN  /\ again = KeysWithout(gone)
                /\ Range(again) = Range(to_delete) \ gone
                /\ \A p \in 1 .. Len(objects) :
                       ~Marked(p) => objects[p].Key \notin Range(again)
                /\ gone = Range(to_delete) => again = <<>>

(***************************************************************************)
(* Two keys are marked, and of the retained objects one is older than the  *)
(* retention period (kept as one of the latest) : removing one marked key  *)
(* leaves the other marked and the old retained object retained.           *)
(***************************************************************************)
C12_Witness ==
    /\ Evaluated
    /\ Len(to_delete) >= 2
    /\ policies[idx].min_backups_to_keep >= 1
    /\ policies[idx].days_to_keep >= 0
    /\ \E p \in 1 .. Len(objects) :
          /\ ~Marked(p)
          /\ OlderThanRetention(clock, objects[p], policies[idx])
    /\ \E k \in Range(to_delete) :
          get_objects_to_delete(ObjectsWithout({k}), policies[idx], clock)
              = KeysWithout({k})

====
